---- MODULE Spec2Model ----
(***************************************************************************)
(* Feed assembly and cache merge of yt2rss: YoutubeAPIService.videos       *)
(* (the service file with the Cache type) and the bbolt-backed Cache of    *)
(* cache.go.  One bucket per playlist holds the item records under the key *)
(* "<Created as RFC3339>-<Id>" and the scalar "last-limit".                *)
(***************************************************************************)
EXTENDS Integers, Sequences, FiniteSets, TLC

\* ------------------------------------------------------------------ bounds
MaxRemote == 3      \* most items ever published in one playlist
MaxLimit == 2       \* largest limit a call asks for
PageSize == 1       \* items on one page of the playlist listing

Playlists == {"UULF1"}
\* the requests that can be in flight at once: two HTTP handler goroutines
Calls == {"first", "second"}
Limits == 0..MaxLimit
VideoIds == 1..MaxRemote
Times == 1..MaxRemote

VARIABLES
    remote,     \* remote[p]: the playlist as the API lists it, newest first
    cacheOn,    \* y.Cache != nil (openCache succeeded)
    db,         \* db[p]: the bbolt bucket of playlist p
    calls,      \* calls[c]: one invocation of videos and where it stands
    hist        \* the call that returned last (at most one record)

vars == <<remote, cacheOn, db, calls, hist>>

\* ----------------------------------------------------------------- helpers
Min(a, b) == IF a < b THEN a ELSE b
Max(a, b) == IF a > b THEN a ELSE b

Range(s) == {s[i] : i \in 1..Len(s)}

\* ------------------------------------------------------------ cache keys
\* Created.Format(time.RFC3339): the text of the timestamp, a byte string
\* that starts with a digit; one element stands for the whole timestamp.
FormatRFC3339(t) == <<0, t>>

\* fmt.Sprintf("%s-%s", item.Created.Format(time.RFC3339), item.Id)
ItemKey(item) == FormatRFC3339(item.Created) \o <<item.Id>>

\* a metadata key that sorts below every item key
LastLimitKeyLow == <<0, 0>>

\* []byte("last-limit"): starts with the letter l, above every digit
LastLimitKey == <<1>>

\* bytes.Compare(a, b) < 0 as bbolt orders keys: lexicographic, a proper
\* prefix sorts first
KeyLess(a, b) ==
    \E i \in 1..(Min(Len(a), Len(b)) + 1) :
        /\ \A j \in 1..(i - 1) : a[j] = b[j]
        /\ \/ i = Len(a) + 1 /\ i <= Len(b)
           \/ i <= Len(a) /\ i <= Len(b) /\ a[i] < b[i]

\* ---------------------------------------------------------------- buckets
\* tx.Bucket(playlistId) == nil
NoBucket == [exists |-> FALSE, items |-> {}, lastLimit |-> {}]

\* a bucket just made by CreateBucketIfNotExists
EmptyBucket == [exists |-> TRUE, items |-> {}, lastLimit |-> {}]

\* strconv.Atoi(string(b.Get([]byte("last-limit"))))
AtoiLastLimit(b) ==
    IF b.lastLimit = {}
    THEN [val |-> 0, err |-> TRUE]
    ELSE [val |-> CHOOSE v \in b.lastLimit : TRUE, err |-> FALSE]

\* the keys of a bucket
BucketKeys(b) ==
    {ItemKey(i) : i \in b.items}
        \cup (IF b.lastLimit = {} THEN {} ELSE {LastLimitKey})

\* ------------------------------------------------------- cache operations
\* InvalidateCacheIfDirty without the DeleteBucket: a stale bucket is kept
InvalidateKeepsBucket(d, playlistId, limit) ==
    IF ~cacheOn \/ ~d[playlistId].exists THEN d
    ELSE [d EXCEPT ![playlistId].lastLimit = {limit}]

\* InvalidateCacheIfDirty with a stale bucket taking every bucket of the
\* store down with it
InvalidateEveryBucket(d, playlistId, limit) ==
    IF ~cacheOn \/ ~d[playlistId].exists THEN d
    ELSE IF AtoiLastLimit(d[playlistId]).val < limit
            \/ AtoiLastLimit(d[playlistId]).err
         THEN [q \in DOMAIN d |->
                  IF q = playlistId
                  THEN [EmptyBucket EXCEPT !.lastLimit = {limit}]
                  ELSE NoBucket]
         ELSE [d EXCEPT ![playlistId].lastLimit = {limit}]

\* Cache.InvalidateCacheIfDirty, one Update transaction.  No bucket: the
\* transaction returns before anything is written.  Otherwise the bucket is
\* deleted when last-limit is below limit or unreadable, then (re)created,
\* and last-limit is overwritten with limit in both cases.
InvalidateCacheIfDirty(d, playlistId, limit) ==
    IF ~cacheOn THEN d
    ELSE LET b == d[playlistId]
             lastLimit == AtoiLastLimit(b)
             kept == IF lastLimit.val < limit \/ lastLimit.err
                     THEN EmptyBucket
                     ELSE b
         IN  IF ~b.exists THEN d
             ELSE [d EXCEPT ![playlistId] =
                        [kept EXCEPT !.lastLimit = {limit}]]

\* UpdateMaxLimit without the max: the limit of the call is stored
UpdateLastLimit(d, playlistId, limit) ==
    IF ~cacheOn \/ ~d[playlistId].exists THEN d
    ELSE [d EXCEPT ![playlistId].lastLimit = {limit}]

\* Cache.UpdateMaxLimit, one Update transaction
UpdateMaxLimit(d, playlistId, limit) ==
    IF ~cacheOn THEN d
    ELSE LET b == d[playlistId]
             parsed == AtoiLastLimit(b)
             lastLimit == IF parsed.err THEN 0 ELSE parsed.val
         IN  IF ~b.exists THEN d
             ELSE [d EXCEPT ![playlistId].lastLimit =
                        {Max(lastLimit, limit)}]

\* HasItem that finds nothing
HasItemNever(d, playlistId, item) == FALSE

\* Cache.HasItem, one View transaction
HasItem(d, playlistId, item) ==
    IF ~cacheOn THEN FALSE
    ELSE LET b == d[playlistId]
         IN  IF ~b.exists THEN FALSE
             ELSE ItemKey(item) \in BucketKeys(b)

\* Put with the bucket written afresh: the records stored before are lost
PutReplacing(d, playlistId, items) ==
    IF ~cacheOn THEN d
    ELSE [d EXCEPT ![playlistId] =
             [exists |-> TRUE, items |-> Range(items),
              lastLimit |-> d[playlistId].lastLimit]]

\* Cache.Put, one Update transaction: the bucket is created when missing
\* and every item is stored under its key
Put(d, playlistId, items) ==
    IF ~cacheOn THEN d
    ELSE LET b == IF d[playlistId].exists THEN d[playlistId]
                  ELSE EmptyBucket
         IN  [d EXCEPT ![playlistId] =
                    [b EXCEPT !.items = b.items \cup Range(items)]]

\* the keys of ks from the largest down
RECURSIVE Descending(_)
Descending(ks) ==
    IF ks = {} THEN <<>>
    ELSE LET top == CHOOSE k \in ks : \A o \in ks \ {k} : KeyLess(o, k)
         IN  <<top>> \o Descending(ks \ {top})

\* PrevKeys with the walk starting on the key Seek found, not below it
PrevKeysFromSeek(b, after) ==
    LET keys == BucketKeys(b)
        ge == {k \in keys : ~KeyLess(k, after)}
        pos == CHOOSE k \in ge : \A o \in ge \ {k} : KeyLess(k, o)
    IN  IF ge = {} THEN Descending(keys)
        ELSE Descending({k \in keys : KeyLess(k, pos) \/ k = pos})

\* PrevKeys with the cursor moved by Next: the walk runs from the seek
\* position toward the newer keys
PrevKeysUpward(b, after) ==
    LET keys == BucketKeys(b)
        ge == {k \in keys : ~KeyLess(k, after)}
        pos == CHOOSE k \in ge : \A o \in ge \ {k} : KeyLess(k, o)
        down == Descending({k \in ge : k # pos})
    IN  IF ge = {} THEN <<>>
        ELSE [i \in 1..Len(down) |-> down[Len(down) + 1 - i]]

\* Cursor.Seek(after) followed by Cursor.Prev() until nil: Seek stops at the
\* first key >= after, Prev steps below it; when no key is >= after the
\* cursor stands behind the last key and Prev starts at the last key.
PrevKeys(b, after) ==
    LET keys == BucketKeys(b)
        ge == {k \in keys : ~KeyLess(k, after)}
        pos == CHOOSE k \in ge : \A o \in ge \ {k} : KeyLess(k, o)
    IN  IF ge = {} THEN Descending(keys)
        ELSE Descending({k \in keys : KeyLess(k, pos)})

\* the stored record under an item key
ItemAt(b, k) == CHOOSE i \in b.items : ItemKey(i) = k

\* Cache.Iter, one View transaction, as the sequence it yields: the items
\* below the seek position from the newest down; a value that is no item
\* record (last-limit) ends it with the error of json.Unmarshal.
RECURSIVE IterFrom(_, _)
IterFrom(b, ks) ==
    IF ks = <<>> THEN [items |-> <<>>, err |-> FALSE]
    ELSE IF Head(ks) = LastLimitKey THEN [items |-> <<>>, err |-> TRUE]
    ELSE LET rest == IterFrom(b, Tail(ks))
         IN  [items |-> <<ItemAt(b, Head(ks))>> \o rest.items,
              err |-> rest.err]

\* Iter with the record at the seek position yielded first
IterInclusive(d, playlistId, after) ==
    IterFrom(d[playlistId], PrevKeysFromSeek(d[playlistId], after))

Iter(d, playlistId, after) == IterFrom(d[playlistId], PrevKeys(d[playlistId], after))

\* take with the loop left one element late (counter > n)
takeOneMore(n, seq) ==
    IF n <= 0 THEN [items |-> <<>>, err |-> FALSE]
    ELSE IF Len(seq.items) >= n + 1
         THEN [items |-> SubSeq(seq.items, 1, n + 1), err |-> FALSE]
         ELSE seq

\* take(n, seq) over a sequence that is read in one piece: nothing for
\* n <= 0, else the elements up to the n-th; the error element of seq is
\* reached only when fewer than n items come before it
take(n, seq) ==
    IF n <= 0 THEN [items |-> <<>>, err |-> FALSE]
    ELSE IF Len(seq.items) >= n
         THEN [items |-> SubSeq(seq.items, 1, n), err |-> FALSE]
         ELSE seq

\* ------------------------------------------------------------------ calls
\* a call slot that runs nothing
IdleCall ==
    [pc |-> "idle", playlistId |-> CHOOSE p \in Playlists : TRUE,
     limit |-> 0, videos |-> <<>>, live |-> 0, pages |-> 0,
     solo |-> TRUE, prev |-> <<>>, start |-> NoBucket]

InFlight(c) == calls[c].pc # "idle"

Quiet == \A c \in Calls : ~InFlight(c)

\* what is remembered of a finished call
Summary(call, outcome, videos) ==
    [playlistId |-> call.playlistId, limit |-> call.limit,
     outcome |-> outcome, videos |-> videos]

\* the end of videos: `return videos, nil`, `return nil, err` or a run-time
\* panic.  A call that ran alone is remembered, with the call before it,
\* the bucket it started from and the number of items it had collected,
\* until the playlist changes or the next call begins.
Finish(c, outcome, videos) ==
    /\ calls' = [calls EXCEPT ![c] = IdleCall]
    /\ hist' = IF calls[c].solo
               THEN <<[call |-> Summary(calls[c], outcome, videos),
                       prev |-> calls[c].prev,
                       start |-> calls[c].start,
                       collected |-> Len(calls[c].videos)]>>
               ELSE <<>>

Init ==
    /\ remote = [p \in Playlists |-> <<>>]
    /\ cacheOn \in BOOLEAN
    /\ db = [p \in Playlists |-> NoBucket]
    /\ calls = [c \in Calls |-> IdleCall]
    /\ hist = <<>>

\* the video ids a playlist can give its next upload: ids are opaque, so
\* within a playlist they either rise or fall with the order of publication
NextIds(r) ==
    IF r = <<>> THEN {1, MaxRemote}
    ELSE IF r[Len(r)].Id = 1 THEN {Len(r) + 1}
    ELSE {MaxRemote - Len(r)}

\* a video is uploaded: it becomes the newest item of the playlist; its
\* PublishedAt is not before that of the newest item so far (PublishedAt has
\* the resolution of a second, so two uploads may carry the same one).
\* Uploads happen between calls: a call sees one remote listing throughout.
Publish(p, id, t) ==
    /\ Quiet
    /\ Len(remote[p]) < MaxRemote
    /\ id \in NextIds(remote[p])
    /\ IF remote[p] = <<>> THEN t = 1
       ELSE t \in {remote[p][1].Created, remote[p][1].Created + 1}
    /\ remote' = [remote EXCEPT ![p] = <<[Id |-> id, Created |-> t]>> \o @]
    /\ hist' = <<>>
    /\ UNCHANGED <<cacheOn, db, calls>>

\* call.Pages requests the pages in order, each right before its items
\* are handed over: the page that holds the i-th item of the playlist
PageOf(i) == (i + PageSize - 1) \div PageSize

\* PagesAtStop with the result of yield ignored: every page of the
\* playlist is requested
PagesDrained(requested, total) == Max(requested, PageOf(total))

\* the pages requested once yield has returned false: the page callback
\* returns cancel, which ends call.Pages
PagesAtStop(requested, total) == requested

\* videos is entered: y.Cache.InvalidateCacheIfDirty(playlistId, o.limit)
Begin(c, p, limit) ==
    /\ calls[c].pc = "idle"
    /\ db' = InvalidateCacheIfDirty(db, p, limit)
    /\ calls' = [o \in Calls |->
                    IF o = c
                    THEN IF Quiet
                         THEN [pc |-> "live", playlistId |-> p,
                               limit |-> limit, videos |-> <<>>,
                               live |-> 0, pages |-> 0, solo |-> TRUE,
                               prev |-> IF hist = <<>> THEN <<>>
                                        ELSE <<hist[1].call>>,
                               start |-> db[p]]
                         ELSE [IdleCall EXCEPT !.pc = "live",
                                               !.playlistId = p,
                                               !.limit = limit,
                                               !.solo = FALSE]
                    ELSE IF InFlight(o)
                         THEN [calls[o] EXCEPT !.solo = FALSE,
                                               !.prev = <<>>,
                                               !.start = NoBucket]
                         ELSE calls[o]]
    /\ hist' = <<>>
    /\ UNCHANGED <<remote, cacheOn>>

\* Begin when no other call runs
BeginAlone(c, p, limit) ==
    /\ Quiet
    /\ Begin(c, p, limit)

\* the live loop ends without a further item: take yields nothing for a
\* limit <= 0 and the listing is never started, or the playlist has no
\* further item (an empty playlist still costs the request of its one page)
LiveEnd(c) ==
    LET call == calls[c] IN
    /\ call.pc = "live"
    /\ \/ call.limit <= 0
       \/ Len(call.videos) = Len(remote[call.playlistId])
    /\ calls' = [calls EXCEPT
            ![c].pc = "put",
            ![c].pages = IF call.limit > 0 THEN Max(call.pages, 1)
                         ELSE call.pages]
    /\ UNCHANGED <<remote, cacheOn, db, hist>>

\* LiveItem with the lookup ahead of the append: a cached item ends the
\* loop without being collected
LiveItemSkipsPivot(c) ==
    LET call == calls[c]
        p == call.playlistId
    IN  /\ call.pc = "live"
        /\ call.limit > 0
        /\ Len(call.videos) < Len(remote[p])
        /\ LET video == remote[p][Len(call.videos) + 1]
               cached == HasItem(db, p, video)
               videos == IF cached THEN call.videos
                         ELSE Append(call.videos, video)
               stop == cached \/ Len(videos) >= call.limit
           IN  calls' = [calls EXCEPT
                   ![c].videos = videos,
                   ![c].pages = Max(call.pages, PageOf(Len(call.videos) + 1)),
                   ![c].pc = IF stop THEN "put" ELSE "live"]
        /\ UNCHANGED <<remote, cacheOn, db, hist>>

\* one round of the live loop: the next playlist item is mapped and
\* appended, then looked up; the loop breaks on a cached item and take
\* stops it once limit items were yielded
LiveItem(c) ==
    LET call == calls[c]
        p == call.playlistId
    IN  /\ call.pc = "live"
        /\ call.limit > 0
        /\ Len(call.videos) < Len(remote[p])
        /\ LET video == remote[p][Len(call.videos) + 1]
               videos == Append(call.videos, video)
               requested == Max(call.pages, PageOf(Len(videos)))
               stop == HasItem(db, p, video) \/ Len(videos) >= call.limit
           IN  calls' = [calls EXCEPT
                   ![c].videos = videos,
                   ![c].pages = IF stop
                                THEN PagesAtStop(requested, Len(remote[p]))
                                ELSE requested,
                   ![c].pc = IF stop THEN "put" ELSE "live"]
        /\ UNCHANGED <<remote, cacheOn, db, hist>>

\* LiveError with the items collected so far written to the bucket first
LiveErrorAfterPut(c) ==
    LET call == calls[c] IN
    /\ call.pc = "live"
    /\ call.limit > 0
    /\ db' = Put(db, call.playlistId, call.videos)
    /\ Finish(c, "error", <<>>)
    /\ UNCHANGED <<remote, cacheOn>>

\* the page request fails or an item cannot be mapped: return nil, err
LiveError(c) ==
    LET call == calls[c] IN
    /\ call.pc = "live"
    /\ call.limit > 0
    /\ Finish(c, "error", <<>>)
    /\ UNCHANGED <<remote, cacheOn, db>>

\* PutStep with last-limit recorded right after the Put, ahead of the
\* fallback
PutStepRecordsLimit(c) ==
    LET call == calls[c] IN
    /\ call.pc = "put"
    /\ db' = UpdateMaxLimit(Put(db, call.playlistId, call.videos),
                            call.playlistId, call.limit)
    /\ IF call.videos = <<>>
       THEN Finish(c, "panic", <<>>)
       ELSE calls' = [calls EXCEPT ![c].pc = "iter"] /\ UNCHANGED hist
    /\ UNCHANGED <<remote, cacheOn>>

\* y.Cache.Put(playlistId, videos...) and the evaluation of
\* videos[len(videos)-1], which panics on an empty slice
PutStep(c) ==
    LET call == calls[c] IN
    /\ call.pc = "put"
    /\ db' = Put(db, call.playlistId, call.videos)
    /\ IF call.videos = <<>>
       THEN Finish(c, "panic", <<>>)
       ELSE calls' = [calls EXCEPT ![c].pc = "iter"] /\ UNCHANGED hist
    /\ UNCHANGED <<remote, cacheOn>>

\* FallbackCount without the items of the live phase taken off
FallbackCountWhole(limit, videos) == Max(0, limit)

\* the number of items the fallback loop asks take for
FallbackCount(limit, videos) == Max(0, limit - Len(videos))

\* ranging over Cache.Iter dereferences the nil *Cache, or the nil bucket
IterPanics(d, playlistId) == ~cacheOn \/ ~d[playlistId].exists

\* the fallback loop over take(max(0, limit-len(videos)), Iter(after))
IterStep(c) ==
    LET call == calls[c]
        p == call.playlistId
        n == FallbackCount(call.limit, call.videos)
        after == FormatRFC3339(call.videos[Len(call.videos)].Created)
    IN  /\ call.pc = "iter"
        /\ IF n > 0 /\ IterPanics(db, p)
           THEN Finish(c, "panic", <<>>)
           ELSE LET r == take(n, Iter(db, p, after))
                IN  IF r.err
                    THEN Finish(c, "cache error", <<>>)
                    ELSE /\ calls' = [calls EXCEPT
                                ![c].videos = call.videos \o r.items,
                                ![c].live = Len(call.videos),
                                ![c].pc = "update"]
                         /\ UNCHANGED hist
        /\ UNCHANGED <<remote, cacheOn, db>>

\* y.Cache.UpdateMaxLimit(playlistId, o.limit); return videos, nil
UpdateStep(c) ==
    LET call == calls[c] IN
    /\ call.pc = "update"
    /\ db' = UpdateMaxLimit(db, call.playlistId, call.limit)
    /\ Finish(c, "ok", call.videos)
    /\ UNCHANGED <<remote, cacheOn>>

Step(c) ==
    \/ LiveEnd(c)
    \/ LiveItem(c)
    \/ LiveError(c)
    \/ PutStep(c)
    \/ IterStep(c)
    \/ UpdateStep(c)

Next ==
    \/ \E p \in Playlists, id \in VideoIds, t \in Times : Publish(p, id, t)
    \/ \E c \in Calls, p \in Playlists, limit \in Limits : Begin(c, p, limit)
    \/ \E c \in Calls : Step(c)

Spec == Init /\ [][Next]_vars

\* the same program when the calls come one after the other
NextSeq ==
    \/ \E p \in Playlists, id \in VideoIds, t \in Times : Publish(p, id, t)
    \/ \E p \in Playlists, limit \in Limits : BeginAlone("first", p, limit)
    \/ \E c \in Calls : Step(c)

SpecSeq == Init /\ [][NextSeq]_vars

\* ------------------------------------------------------- cache failures
\* The transactions of the store can fail (c.Update or c.View returns an
\* error, a stored value does not decode).  A failed Update is rolled back.

\* videos is entered and the Update of InvalidateCacheIfDirty fails: the
\* error is logged, nothing is written
BeginFail(c, p, limit) ==
    /\ cacheOn
    /\ Quiet
    /\ calls' = [calls EXCEPT ![c] =
                    [pc |-> "live", playlistId |-> p, limit |-> limit,
                     videos |-> <<>>, live |-> 0, pages |-> 0,
                     solo |-> TRUE,
                     prev |-> IF hist = <<>> THEN <<>> ELSE <<hist[1].call>>,
                     start |-> db[p]]]
    /\ hist' = <<>>
    /\ UNCHANGED <<remote, cacheOn, db>>

\* one round of the live loop in which the View of HasItem fails: the
\* error is logged and the result is false
LiveItemFail(c) ==
    LET call == calls[c]
        p == call.playlistId
    IN  /\ cacheOn
        /\ call.pc = "live"
        /\ call.limit > 0
        /\ Len(call.videos) < Len(remote[p])
        /\ LET videos == Append(call.videos, remote[p][Len(call.videos) + 1])
               requested == Max(call.pages, PageOf(Len(videos)))
               stop == Len(videos) >= call.limit
           IN  calls' = [calls EXCEPT
                   ![c].videos = videos,
                   ![c].pages = IF stop
                                THEN PagesAtStop(requested, Len(remote[p]))
                                ELSE requested,
                   ![c].pc = IF stop THEN "put" ELSE "live"]
        /\ UNCHANGED <<remote, cacheOn, db, hist>>

\* the Update of Cache.Put fails: the error is logged, nothing is written
PutFail(c) ==
    LET call == calls[c] IN
    /\ cacheOn
    /\ call.pc = "put"
    /\ IF call.videos = <<>>
       THEN Finish(c, "panic", <<>>)
       ELSE calls' = [calls EXCEPT ![c].pc = "iter"] /\ UNCHANGED hist
    /\ UNCHANGED <<remote, cacheOn, db>>

\* the View of Cache.Iter fails, or json.Unmarshal of a stored value does:
\* Iter yields (nil, err) and the fallback loop returns nil, err
IterFail(c) ==
    LET call == calls[c] IN
    /\ cacheOn
    /\ call.pc = "iter"
    /\ call.limit - Len(call.videos) > 0
    /\ db[call.playlistId].exists
    /\ Finish(c, "cache error", <<>>)
    /\ UNCHANGED <<remote, cacheOn, db>>

\* the Update of Cache.UpdateMaxLimit fails: the error is logged
UpdateFail(c) ==
    LET call == calls[c] IN
    /\ cacheOn
    /\ call.pc = "update"
    /\ Finish(c, "ok", call.videos)
    /\ UNCHANGED <<remote, cacheOn, db>>

\* calls one after the other over a store whose transactions can fail
NextFail ==
    \/ NextSeq
    \/ \E p \in Playlists, limit \in Limits : BeginFail("first", p, limit)
    \/ LiveItemFail("first")
    \/ PutFail("first")
    \/ IterFail("first")
    \/ UpdateFail("first")

SpecFail == Init /\ [][NextFail]_vars

\* ---------------------------------------------------------- two playlists
\* the uploads playlists of two channels served from the one store
Playlists2 == {"UULF1", "UULF2"}

\* a playlist of n uploads, the newest first
RemoteOfLen(n) == [i \in 1..n |-> [Id |-> n + 1 - i, Created |-> n + 1 - i]]

InitTwo ==
    /\ remote \in [Playlists2 -> {RemoteOfLen(n) : n \in 0..MaxRemote}]
    /\ cacheOn \in BOOLEAN
    /\ db = [p \in Playlists2 |-> NoBucket]
    /\ calls = [c \in Calls |-> IdleCall]
    /\ hist = <<>>

\* calls one after the other, each on either playlist
NextTwo ==
    \/ \E p \in Playlists2, limit \in Limits : BeginAlone("first", p, limit)
    \/ \E c \in Calls : Step(c)

SpecTwo == InitTwo /\ [][NextTwo]_vars

\* ------------------------------------------- the count-based revision
\* src/youtube.go keeps, next to the item records of a bucket, the number of
\* records ever written to it, and trusts the bucket while that number is
\* at least the limit.  Buckets are records [exists, items, count].

\* item.Snippet.PublishedAt, the timestamp as the listing delivers it
PublishedAt(item) == <<0, item.Created>>

\* fmt.Sprintf("%s-%s", item.Snippet.PublishedAt, item.ContentDetails.VideoId)
cacheKey(item) == PublishedAt(item) \o <<item.Id>>

\* []byte("count"): starts with the letter c, above every digit
countKey == <<1>>

noCountBucket == [exists |-> FALSE, items |-> {}, count |-> 0]

\* invalidateCacheIfDirty: the bucket is deleted when its count is below
\* the limit
invalidateCacheIfDirty(d, playlistId, limit) ==
    IF ~cacheOn \/ ~d[playlistId].exists THEN d
    ELSE IF d[playlistId].count < limit
         THEN [d EXCEPT ![playlistId] = noCountBucket]
         ELSE d

\* isCached: the key of the item is in the bucket of its playlist
isCached(d, playlistId, item) ==
    /\ cacheOn
    /\ d[playlistId].exists
    /\ \E i \in d[playlistId].items : cacheKey(i) = cacheKey(item)

\* cache: the record is written under its key and count is raised by one
cache(d, playlistId, item) ==
    IF ~cacheOn THEN d
    ELSE [d EXCEPT ![playlistId] =
             [exists |-> TRUE,
              items |-> d[playlistId].items \cup {item},
              count |-> d[playlistId].count + 1]]

\* the keys iterCache visits: Cursor.Seek(start), the key found included,
\* then Cursor.Prev until nil; nothing when Seek finds no key
iterCacheKeys(b, start) ==
    LET keys == {cacheKey(i) : i \in b.items}
                    \cup (IF b.count > 0 THEN {countKey} ELSE {})
        ge == {k \in keys : ~KeyLess(k, start)}
        pos == CHOOSE k \in ge : \A o \in ge \ {k} : KeyLess(k, o)
    IN  IF ge = {} THEN <<>>
        ELSE Descending({k \in keys : KeyLess(k, pos) \/ k = pos})

\* iterCache as the sequence it yields; the value under count is no item
\* record and ends it with the error of json.Unmarshal
RECURSIVE iterCacheFrom(_, _)
iterCacheFrom(b, ks) ==
    IF ks = <<>> THEN [items |-> <<>>, err |-> FALSE]
    ELSE IF Head(ks) = countKey THEN [items |-> <<>>, err |-> TRUE]
    ELSE LET rest == iterCacheFrom(b, Tail(ks))
         IN  [items |-> <<CHOOSE i \in b.items : cacheKey(i) = Head(ks)>>
                            \o rest.items,
              err |-> rest.err]

iterCache(d, playlistId, start) ==
    iterCacheFrom(d[playlistId], iterCacheKeys(d[playlistId], start))

InitCount ==
    /\ remote = [p \in Playlists |-> <<>>]
    /\ cacheOn \in BOOLEAN
    /\ db = [p \in Playlists |-> noCountBucket]
    /\ calls = [c \in Calls |-> IdleCall]
    /\ hist = <<>>

\* videos ranges over allPlaylistItems(ctx, playlistId, o.limit), which
\* runs invalidateCacheIfDirty before it returns the sequence
CountBegin(c, p, limit) ==
    /\ Quiet
    /\ db' = invalidateCacheIfDirty(db, p, limit)
    /\ calls' = [calls EXCEPT ![c] =
                    [IdleCall EXCEPT !.pc = "live", !.playlistId = p,
                                     !.limit = limit, !.start = db[p]]]
    /\ hist' = <<>>
    /\ UNCHANGED <<remote, cacheOn>>

\* one item of a page: a cached item is kept as continueAt and ends the
\* listing; any other is cached, counted and yielded, and the listing ends
\* once limit has run down to 0
CountLiveItem(c) ==
    LET call == calls[c]
        p == call.playlistId
    IN  /\ call.pc = "live"
        /\ Len(call.videos) < Len(remote[p])
        /\ LET e == remote[p][Len(call.videos) + 1]
               videos == Append(call.videos, e)
           IN  IF isCached(db, p, e)
               THEN /\ calls' = [calls EXCEPT ![c].pc = "iter"]
                    /\ UNCHANGED <<db, hist>>
               ELSE /\ db' = cache(db, p, e)
                    /\ IF call.limit - Len(videos) <= 0
                       THEN Finish(c, "ok", videos)
                       ELSE /\ calls' = [calls EXCEPT ![c].videos = videos]
                            /\ UNCHANGED hist
        /\ UNCHANGED <<remote, cacheOn>>

\* the listing ends with the playlist: continueAt is nil, videos returns
CountLiveEnd(c) ==
    LET call == calls[c] IN
    /\ call.pc = "live"
    /\ Len(call.videos) = Len(remote[call.playlistId])
    /\ Finish(c, "ok", call.videos)
    /\ UNCHANGED <<remote, cacheOn, db>>

\* a page request fails: the error is yielded and videos returns nil, err
CountLiveError(c) ==
    /\ calls[c].pc = "live"
    /\ Finish(c, "error", <<>>)
    /\ UNCHANGED <<remote, cacheOn, db>>

\* videos cannot map an item it was handed: the item was cached and
\* counted before the yield, videos returns nil, err
CountMapError(c) ==
    LET call == calls[c]
        p == call.playlistId
    IN  /\ call.pc = "live"
        /\ Len(call.videos) < Len(remote[p])
        /\ ~isCached(db, p, remote[p][Len(call.videos) + 1])
        /\ db' = cache(db, p, remote[p][Len(call.videos) + 1])
        /\ Finish(c, "error", <<>>)
        /\ UNCHANGED <<remote, cacheOn>>

\* the loop over iterCache(playlistId, continueAt.Snippet.PublishedAt):
\* each item is yielded after limit was lowered, until limit is at 0
CountFallback(c) ==
    LET call == calls[c]
        p == call.playlistId
        continueAt == remote[p][Len(call.videos) + 1]
        r == iterCache(db, p, PublishedAt(continueAt))
        n == Max(1, call.limit - Len(call.videos))
    IN  /\ call.pc = "iter"
        /\ IF Len(r.items) >= n
           THEN Finish(c, "ok", call.videos \o SubSeq(r.items, 1, n))
           ELSE IF r.err THEN Finish(c, "error", <<>>)
           ELSE Finish(c, "ok", call.videos \o r.items)
        /\ UNCHANGED <<remote, cacheOn, db>>

\* calls of the count-based revision, one after the other
NextCount ==
    \/ \E p \in Playlists, id \in VideoIds, t \in Times : Publish(p, id, t)
    \/ \E p \in Playlists, limit \in Limits : CountBegin("first", p, limit)
    \/ CountLiveItem("first")
    \/ CountLiveEnd("first")
    \/ CountLiveError("first")
    \/ CountMapError("first")
    \/ CountFallback("first")

SpecCount == InitCount /\ [][NextCount]_vars

\* ---------------------------------------------------------------- claims
\* the first min(limit, |remote|) items of the playlist, in remote order
Expected(p, limit) == SubSeq(remote[p], 1, Min(limit, Len(remote[p])))

\* no two items of the playlist carry the same PublishedAt
DistinctTimes(p) ==
    \A i, j \in 1..Len(remote[p]) :
        i # j => remote[p][i].Created # remote[p][j].Created

\* the call that returned last ran alone and did not fail on the remote side
Returned == hist # <<>> /\ hist[1].call.outcome # "error"

\* C1: calls of videos that overlap on one playlist, against an unchanged
\* remote, each return the first min(limit, |remote|) remote items when they
\* return without error.  Stated for playlists whose timestamps are
\* pairwise distinct, and for the calls that reach `return videos, nil`.
C1_OverlappingCallsExact ==
    \A c \in Calls :
        (/\ calls[c].pc = "update"
         /\ ~calls[c].solo
         /\ DistinctTimes(calls[c].playlistId))
        => calls[c].videos = Expected(calls[c].playlistId, calls[c].limit)

\* the positions of the playlist whose item is in the bucket
CachedAt(p) == {i \in 1..Len(remote[p]) : remote[p][i] \in db[p].items}

\* C2: when no call is in flight and the bucket holds an item, every remote
\* item from the newest cached one down to depth last-limit is cached.
C2_CacheCompleteToLastLimit ==
    \A p \in Playlists :
        (/\ Quiet
         /\ db[p].lastLimit # {}
         /\ CachedAt(p) # {})
        => LET m == AtoiLastLimit(db[p]).val
               newest == CHOOSE i \in CachedAt(p) :
                            \A j \in CachedAt(p) : i <= j
           IN  \A i \in newest..Min(m, Len(remote[p])) : i \in CachedAt(p)

\* C3: after a call with limit L1, a following call with a larger limit L2
\* on the unchanged playlist of at least L2 items returns the first L2
\* remote items.
C3_GrowingLimit ==
    (/\ Returned
     /\ hist[1].prev # <<>>
     /\ hist[1].prev[1].limit < hist[1].call.limit
     /\ Len(remote[hist[1].call.playlistId]) >= hist[1].call.limit)
    => /\ hist[1].call.outcome = "ok"
       /\ Len(hist[1].call.videos) = hist[1].call.limit
       /\ hist[1].call.videos =
              Expected(hist[1].call.playlistId, hist[1].call.limit)

\* C3 witness: the shallower call had filled the bucket, the deeper call
\* found it and returned
C3_Witness ==
    /\ Returned
    /\ hist[1].prev # <<>>
    /\ hist[1].prev[1].outcome = "ok"
    /\ hist[1].prev[1].limit > 0
    /\ hist[1].prev[1].limit < hist[1].call.limit
    /\ hist[1].start.items # {}
    /\ Len(remote[hist[1].call.playlistId]) >= hist[1].call.limit
    /\ hist[1].call.outcome = "ok"

\* the positions of the playlist whose item was in the bucket when the call
\* that returned last began
CachedAtStart ==
    LET r == remote[hist[1].call.playlistId]
    IN  {i \in 1..Len(r) : r[i] \in hist[1].start.items}

\* the case of C4: the bucket was not stale for the limit and held exactly
\* the remote items K+1..K+M (counted from 1), with K < limit <= K+M
PivotCase ==
    /\ Returned
    /\ cacheOn
    /\ hist[1].start.lastLimit # {}
    /\ AtoiLastLimit(hist[1].start).val >= hist[1].call.limit
    /\ CachedAtStart # {}
    /\ LET first == CHOOSE i \in CachedAtStart :
                        \A j \in CachedAtStart : i <= j
           M == Cardinality(CachedAtStart)
       IN  /\ CachedAtStart = first..(first + M - 1)
           /\ first - 1 < hist[1].call.limit
           /\ hist[1].call.limit <= first - 1 + M

\* C4: in the pivot case the call returns exactly the first limit remote
\* items, in remote order, none twice and none missing.
C4_PivotCorrectness ==
    PivotCase
    => /\ hist[1].call.outcome = "ok"
       /\ hist[1].call.videos =
              Expected(hist[1].call.playlistId, hist[1].call.limit)

\* C5: calls that come one after the other with positive limits, with
\* uploads between them and pairwise distinct timestamps, each return the
\* first min(limit, |remote|) items of the playlist as it then is.
C5_SequentialCallsExact ==
    (/\ Returned
     /\ hist[1].call.limit > 0
     /\ DistinctTimes(hist[1].call.playlistId))
    => /\ hist[1].call.outcome = "ok"
       /\ hist[1].call.videos =
              Expected(hist[1].call.playlistId, hist[1].call.limit)

\* C6: without a cache (y.Cache == nil) a call ends without error or crash
\* and returns the first min(limit, |remote|) remote items.  Stated for a
\* positive limit and a playlist that is not empty.
C6_CachelessEquivalence ==
    (/\ Returned
     /\ ~cacheOn
     /\ hist[1].call.limit > 0
     /\ remote[hist[1].call.playlistId] # <<>>)
    => /\ hist[1].call.outcome = "ok"
       /\ hist[1].call.videos =
              Expected(hist[1].call.playlistId, hist[1].call.limit)

\* C7: a call with limit 0, and a call with a positive limit on an empty
\* playlist, return the empty list without error.
C7_EmptyCollectionSafety ==
    (/\ Returned
     /\ \/ hist[1].call.limit = 0
        \/ remote[hist[1].call.playlistId] = <<>>)
    => /\ hist[1].call.outcome = "ok"
       /\ hist[1].call.videos = <<>>

\* C8: two calls in a row with the same positive limit on the unchanged
\* playlist return the same list of ids.  Stated for a playlist that is not
\* empty, with the cache in use.
C8_Idempotence ==
    (/\ Returned
     /\ cacheOn
     /\ hist[1].prev # <<>>
     /\ hist[1].prev[1].outcome # "error"
     /\ hist[1].prev[1].limit = hist[1].call.limit
     /\ hist[1].call.limit > 0
     /\ remote[hist[1].call.playlistId] # <<>>)
    => /\ hist[1].prev[1].outcome = "ok"
       /\ hist[1].call.outcome = "ok"
       /\ [i \in 1..Len(hist[1].call.videos) |-> hist[1].call.videos[i].Id]
            = [i \in 1..Len(hist[1].prev[1].videos) |->
                    hist[1].prev[1].videos[i].Id]

\* C9: a call with a positive limit that returns a list returns at most
\* limit items, live and fallback items together.
C9_AtMostLimit ==
    \A c \in Calls :
        (calls[c].pc = "update" /\ calls[c].limit > 0)
        => Len(calls[c].videos) <= calls[c].limit

\* C9 witness: a call returns exactly limit items, part of them live and
\* part of them from the bucket
C9_Witness ==
    \E c \in Calls :
        /\ calls[c].pc = "update"
        /\ calls[c].live >= 1
        /\ Len(calls[c].videos) > calls[c].live
        /\ Len(calls[c].videos) = calls[c].limit

\* C10: in a returned list no id occurs twice, no item is newer than an
\* item before it, and no fallback item is a live item or newer than one.
C10_NoDuplicateNewestFirst ==
    \A c \in Calls :
        calls[c].pc = "update"
        => LET v == calls[c].videos IN
           /\ \A i, j \in 1..Len(v) :
                i < j => /\ v[i].Id # v[j].Id
                         /\ v[i].Created >= v[j].Created
           /\ \A i \in 1..calls[c].live, j \in (calls[c].live + 1)..Len(v) :
                v[j] # v[i] /\ ~(v[j].Created > v[i].Created)

\* C10 witness: a call that overlapped another one returns live items
\* followed by items of the bucket
C10_Witness ==
    \E c \in Calls :
        /\ calls[c].pc = "update"
        /\ ~calls[c].solo
        /\ calls[c].live >= 1
        /\ Len(calls[c].videos) > calls[c].live

\* C11: a call whose live phase meets a remote error returns no item and
\* writes no item of the batch collected so far: the bucket holds no item
\* it did not hold when the call began, and Put has not created it.
C11_RemoteErrorWritesNothing ==
    (hist # <<>> /\ hist[1].call.outcome = "error")
    => /\ hist[1].call.videos = <<>>
       /\ db[hist[1].call.playlistId].items \subseteq hist[1].start.items
       /\ db[hist[1].call.playlistId].exists = hist[1].start.exists

\* C11 witness: the remote failed after the call had collected an item,
\* with the cache in use
C11_Witness ==
    /\ hist # <<>>
    /\ cacheOn
    /\ hist[1].call.outcome = "error"
    /\ hist[1].collected >= 1

\* C12: a failure of the store is never fatal to a call: no call ends with
\* an error that came from a cache operation.
C12_CacheFailureNotFatal ==
    hist # <<>> => hist[1].call.outcome # "cache error"

\* call c enters videos in this step
Begins(c) == calls[c].pc = "idle" /\ calls'[c].pc = "live"

\* C13: the staleness check of a call with limit L deletes every record and
\* sets last-limit to L when last-limit is missing or below L, and otherwise
\* leaves the bucket as it is, records and last-limit alike.  Stated for a
\* playlist that has a bucket and a call with a positive limit.
C13_ResetIfStale ==
    [][\A c \in Calls :
        (/\ cacheOn
         /\ Begins(c)
         /\ calls'[c].limit > 0
         /\ db[calls'[c].playlistId].exists)
        => LET p == calls'[c].playlistId
               L == calls'[c].limit
           IN  IF db[p].lastLimit = {} \/ AtoiLastLimit(db[p]).val < L
               THEN db'[p].items = {} /\ db'[p].lastLimit = {L}
               ELSE db'[p] = db[p]]_vars

\* C14: last-limit never goes down from one state to the next, except in a
\* step that deletes all records of the playlist and sets it to the limit of
\* the call that does so.  Stated for the steps that leave it positive.
C14_LastLimitMonotone ==
    [][\A p \in Playlists :
        (/\ db[p].lastLimit # {}
         /\ db'[p].lastLimit # {}
         /\ AtoiLastLimit(db'[p]).val > 0
         /\ AtoiLastLimit(db'[p]).val < AtoiLastLimit(db[p]).val)
        => /\ db'[p].items = {}
           /\ \E c \in Calls :
                /\ Begins(c)
                /\ calls'[c].playlistId = p
                /\ db'[p].lastLimit = {calls'[c].limit}]_vars

\* The call observed in hist began by resetting the bucket of its playlist:
\* the bucket existed and its last-limit was unreadable or below the limit.
ResetAtStart ==
    /\ hist # <<>>
    /\ cacheOn
    /\ hist[1].start.exists
    /\ \/ hist[1].start.lastLimit = {}
       \/ AtoiLastLimit(hist[1].start).val < hist[1].call.limit

\* C15: last-limit is the limit of a call that completed.  After a call that
\* reset a bucket left by a completed call and then failed on a remote error,
\* no call has completed since the reset, so the bucket of its playlist
\* carries no positive last-limit.
C15_LastLimitOnlyAfterSuccess ==
    (/\ ResetAtStart
     /\ hist[1].start.lastLimit # {}
     /\ hist[1].call.outcome = "error")
    => \/ db[hist[1].call.playlistId].lastLimit = {}
       \/ AtoiLastLimit(db[hist[1].call.playlistId]).val <= 0

\* C16: take pulls at most min(n, M) elements and none for n <= 0.  While a
\* call is in its live phase or between the phases, the items pulled from
\* the remote sequence are at most min(limit, length of the playlist), none
\* for a limit <= 0; once the fallback ran, the records pulled from the
\* cache are at most limit - len(live result).
C16_BoundedTake ==
    \A c \in Calls :
        LET call == calls[c] IN
        /\ call.pc \in {"live", "put", "iter"}
           => Len(call.videos)
                  <= Min(Max(call.limit, 0), Len(remote[call.playlistId]))
        /\ call.pc = "update"
           => /\ call.live <= Min(Max(call.limit, 0),
                                  Len(remote[call.playlistId]))
              /\ Len(call.videos) - call.live
                     <= Max(0, call.limit - call.live)

\* the fallback of a call took the one record it was asked for and left an
\* older record of the bucket unread
C16_Witness ==
    \E c \in Calls :
        LET call == calls[c] IN
        /\ call.pc = "update"
        /\ call.limit - call.live >= 1
        /\ Len(call.videos) - call.live = call.limit - call.live
        /\ \E i \in db[call.playlistId].items :
               /\ i \notin Range(call.videos)
               /\ KeyLess(ItemKey(i), ItemKey(call.videos[Len(call.videos)]))

\* C17: once the consumer of the playlist listing stops, no new page is
\* requested.  A step of the live loop that takes an item and ends the loop
\* goes on to Cache.Put (the stop is no error) with exactly the pages up to
\* the one holding the item taken last requested, and no step of the call
\* after the live loop requests a page.
C17_NoPageAfterStop ==
    [][\A c \in Calls :
        /\ (/\ calls[c].pc = "live"
            /\ calls'[c].pc # "live"
            /\ Len(calls'[c].videos) > Len(calls[c].videos))
           => /\ calls'[c].pc = "put"
              /\ calls'[c].pages = PageOf(Len(calls'[c].videos))
        /\ (calls[c].pc \in {"put", "iter", "update"}
            /\ calls'[c].pc # "idle")
           => calls'[c].pages = calls[c].pages]_vars

\* a call stopped its live loop, on the limit or on a cached item, while
\* the playlist has pages behind the last one requested
C17_Witness ==
    \E c \in Calls :
        LET call == calls[c] IN
        /\ call.pc \in {"put", "iter", "update"}
        /\ call.pages >= 1
        /\ call.pages < PageOf(Len(remote[call.playlistId]))

\* C18: a call with a limit <= 0 requests no page of the playlist, collects
\* nothing, and returns the empty list with the records of its playlist, and
\* whether it has a bucket at all, as they were when it began.
C18_NonPositiveLimit ==
    /\ \A c \in Calls :
           (InFlight(c) /\ calls[c].limit <= 0)
           => calls[c].pages = 0 /\ calls[c].videos = <<>>
    /\ (hist # <<>> /\ hist[1].call.limit <= 0)
       => /\ hist[1].call.outcome = "ok"
          /\ hist[1].call.videos = <<>>
          /\ db[hist[1].call.playlistId].items = hist[1].start.items
          /\ db[hist[1].call.playlistId].exists = hist[1].start.exists

\* the playlist of the call that takes the step
Acting(c) ==
    IF calls[c].pc = "idle" THEN calls'[c].playlistId
    ELSE calls[c].playlistId

\* C19: playlists are independent.  A step of a call changes the bucket of
\* no playlist but its own, and what the call ends with is settled by its
\* own playlist and its limit alone: short of a remote error it panics
\* exactly when it collected nothing or ran a fallback without a store, and
\* else returns the first min(limit, length) items of its playlist.
C19_PlaylistsIndependent ==
    [][/\ \A c \in Calls, q \in DOMAIN db :
            (calls'[c] # calls[c] /\ q # Acting(c)) => db'[q] = db[q]
       /\ (hist' # <<>> /\ hist'[1].call.outcome # "error")
          => LET call == hist'[1].call
                 p == call.playlistId
                 panics == \/ call.limit <= 0
                           \/ remote[p] = <<>>
                           \/ ~cacheOn /\ call.limit > Len(remote[p])
             IN  IF panics THEN call.outcome = "panic"
                 ELSE /\ call.outcome = "ok"
                      /\ call.videos = Expected(p, call.limit)]_vars

\* a call has just reset the bucket of its playlist while the other
\* playlist has records in the store
C19_Witness ==
    \E c \in Calls :
        LET call == calls[c] IN
        /\ call.pc = "live"
        /\ call.start.items # {}
        /\ db[call.playlistId].items = {}
        /\ \E q \in DOMAIN db : q # call.playlistId /\ db[q].items # {}

\* C20: Put is an idempotent upsert.  With the cache in use, for the items a
\* call is about to store: storing them twice leaves the store as storing
\* them once; last-limit is not touched, and nothing changes at all when
\* every item is stored already; each item is found by HasItem right after.
\* And a stored record leaves the bucket only in the step of a call that
\* begins on its playlist and finds the bucket stale.
C20_PutIdempotentUpsert ==
    [][/\ \A c \in Calls :
            (cacheOn /\ calls[c].pc = "put")
            => LET p == calls[c].playlistId
                   items == calls[c].videos
                   once == Put(db, p, items)
               IN  /\ Put(once, p, items) = once
                   /\ once[p].lastLimit = db[p].lastLimit
                   /\ (db[p].exists /\ Range(items) \subseteq db[p].items)
                      => once = db
                   /\ \A i \in Range(items) : HasItem(once, p, i)
                   /\ calls'[c].pc # "put" => db' = once
       /\ \A p \in DOMAIN db :
            (db[p].items \ db'[p].items # {})
            => \E c \in Calls :
                   /\ Begins(c)
                   /\ calls'[c].playlistId = p
                   /\ \/ db[p].lastLimit = {}
                      \/ AtoiLastLimit(db[p]).val < calls'[c].limit]_vars

\* a call whose live loop broke on a cached item has stored its items, the
\* cached one among them, and the bucket holds them with older records
C20_Witness ==
    \E c \in Calls :
        LET call == calls[c]
            p == call.playlistId
        IN  /\ cacheOn
            /\ call.pc = "iter"
            /\ Len(call.videos) < call.limit
            /\ Len(call.videos) < Len(remote[p])
            /\ Range(call.videos) \subseteq db[p].items
            /\ db[p].items \ Range(call.videos) # {}

\* the live loop of the call has ended before the limit and before the end
\* of the playlist: it broke on a cached item
BrokeOnCached(c) ==
    /\ calls[c].pc = "put"
    /\ Len(calls[c].videos) < calls[c].limit
    /\ Len(calls[c].videos) < Len(remote[calls[c].playlistId])

\* C21 as stated: the pivot is kept out of the live result and out of the
\* batch handed to Cache.Put, so no item of that batch is in the bucket.
C21_PivotNotCollected ==
    \A c \in Calls :
        calls[c].pc = "put"
        => \A k \in 1..Len(calls[c].videos) :
               ~HasItem(db, calls[c].playlistId, calls[c].videos[k])

\* C21 amended: the live loop stops on the first cached item after having
\* collected it.  Of the batch handed to Cache.Put only the last item can
\* be cached, it is cached whenever the loop broke early, and the fallback
\* adds no item that the live loop collected.
C21_PivotCollectedLive ==
    \A c \in Calls :
        LET call == calls[c]
            p == call.playlistId
        IN  /\ call.pc = "put"
               => \A k \in 1..(Len(call.videos) - 1) :
                      ~HasItem(db, p, call.videos[k])
            /\ BrokeOnCached(c)
               => /\ call.videos # <<>>
                  /\ HasItem(db, p, call.videos[Len(call.videos)])
            /\ call.pc = "update"
               => \A k \in (call.live + 1)..Len(call.videos) :
                      \A j \in 1..call.live : call.videos[k] # call.videos[j]

\* the live loop broke on a cached item and holds it as its last item
C21_Witness ==
    \E c \in Calls :
        /\ BrokeOnCached(c)
        /\ calls[c].videos # <<>>
        /\ HasItem(db, calls[c].playlistId,
                   calls[c].videos[Len(calls[c].videos)])

\* the call, run alone, has passed its fallback after a live loop whose
\* last item was a pivot: the bucket was kept when the call began and held
\* that item
BrokeBeforeFallback(c) ==
    /\ cacheOn
    /\ calls[c].pc = "update"
    /\ calls[c].solo
    /\ calls[c].start.lastLimit # {}
    /\ AtoiLastLimit(calls[c].start).val >= calls[c].limit
    /\ calls[c].live >= 1
    /\ calls[c].videos[calls[c].live] \in calls[c].start.items

\* C22: when the live loop ended on a pivot, the list about to be returned
\* starts with the remote items down to the pivot, the pivot stands in it
\* exactly once, as the last of them, and every item behind it is a record
\* of the bucket with a smaller key.
C22_PivotExactlyOnce ==
    \A c \in Calls :
        BrokeBeforeFallback(c)
        => LET call == calls[c]
               p == call.playlistId
               pivot == call.videos[call.live]
               below == {i \in db[p].items :
                            KeyLess(ItemKey(i), ItemKey(pivot))}
           IN  /\ call.live >= 1
               /\ SubSeq(call.videos, 1, call.live)
                      = SubSeq(remote[p], 1, call.live)
               /\ Cardinality({k \in 1..Len(call.videos) :
                                  call.videos[k] = pivot}) = 1
               /\ \A k \in (call.live + 1)..Len(call.videos) :
                      call.videos[k] \in below

\* the live loop broke on the pivot and the fallback supplied an item
C22_Witness ==
    \E c \in Calls :
        /\ BrokeBeforeFallback(c)
        /\ Len(calls[c].videos) > calls[c].live

\* C23: least remote work.  When the live loop of a call has ended, the
\* items it pulled from the playlist are min(limit, K+1, length) in number,
\* K+1 being the position, counted from 1, of the newest playlist item the
\* bucket holds; without such an item they are min(limit, length).
C23_LeastRemoteWork ==
    \A c \in Calls :
        calls[c].pc = "put"
        => LET call == calls[c]
               p == call.playlistId
               most == Min(Max(call.limit, 0), Len(remote[p]))
               first == CHOOSE i \in CachedAt(p) :
                            \A j \in CachedAt(p) : i <= j
           IN  Len(call.videos) = IF CachedAt(p) = {} THEN most
                                  ELSE Min(most, first)

\* the newest item of a longer playlist is cached and a call that asked for
\* more has pulled that one item only
C23_Witness ==
    \E c \in Calls :
        /\ calls[c].pc = "put"
        /\ calls[c].limit >= 2
        /\ Len(remote[calls[c].playlistId]) >= 2
        /\ 1 \in CachedAt(calls[c].playlistId)
        /\ Len(calls[c].videos) = 1

\* the records of the bucket with a key below the key of item, from the
\* largest key down
BelowKeyOf(p, item) ==
    IterFrom(db[p], Descending({k \in BucketKeys(db[p]) \ {LastLimitKey} :
                                   KeyLess(k, ItemKey(item))})).items

\* C24: the fallback continues from the exact key, timestamp and id, of the
\* last item of the live loop: what it adds to the list are the first
\* limit - len(live result) records with a key below that key, an item that
\* shares the timestamp of the last live item included.
C24_ContinuesFromExactKey ==
    \A c \in Calls :
        (cacheOn /\ calls[c].solo /\ calls[c].pc = "update")
        => LET call == calls[c]
               older == BelowKeyOf(call.playlistId, call.videos[call.live])
               n == Min(Max(0, call.limit - call.live), Len(older))
           IN  SubSeq(call.videos, call.live + 1, Len(call.videos))
                   = SubSeq(older, 1, n)

\* the continuation keys videos can hand to Cache.Iter
AfterKeys == {FormatRFC3339(t) : t \in 0..(MaxRemote + 1)}

\* C25: in every bucket the program builds and for every continuation key,
\* Cache.Iter yields without error exactly the items whose key lies below
\* the first key >= after (all items when there is no such key), each once
\* and in descending key order, and a consumer that stops after n items has
\* read the first n of them.
C25_IterBelowSeekPosition ==
    \A p \in DOMAIN db, after \in AfterKeys :
        (cacheOn /\ db[p].exists)
        => LET r == Iter(db, p, after)
               keys == BucketKeys(db[p])
               ge == {k \in keys : ~KeyLess(k, after)}
               under == {i \in db[p].items :
                            \A k \in ge : KeyLess(ItemKey(i), k)}
           IN  /\ ~r.err
               /\ Range(r.items) = under
               /\ Len(r.items) = Cardinality(under)
               /\ \A j, k \in 1..Len(r.items) :
                      j < k => KeyLess(ItemKey(r.items[k]),
                                       ItemKey(r.items[j]))
               /\ \A n \in Limits :
                      take(n, r).items
                          = SubSeq(r.items, 1, Min(n, Len(r.items)))

\* a fallback has run over a bucket that holds the item at the seek
\* position and another one above it, and took an item from below
C25_Witness ==
    \E c \in Calls :
        LET call == calls[c]
            p == call.playlistId
            after == FormatRFC3339(call.videos[call.live].Created)
        IN  /\ cacheOn
            /\ call.pc = "update"
            /\ Len(call.videos) > call.live
            /\ \E i, j \in db[p].items :
                   /\ i # j
                   /\ ~KeyLess(ItemKey(i), after)
                   /\ ~KeyLess(ItemKey(j), after)

\* C26: the last-limit entry shares the bucket with the item records and
\* is never taken for one.  No item key equals its key, so HasItem finds
\* stored items only, and the walk of a fallback, whatever its continuation
\* key, ends without reaching it: Iter reports no undecodable record.
C26_MetadataNeverAnItem ==
    /\ \A id \in VideoIds, t \in Times :
           ItemKey([Id |-> id, Created |-> t]) # LastLimitKey
    /\ \A p \in DOMAIN db :
           (cacheOn /\ db[p].exists)
           => /\ \A id \in VideoIds, t \in Times :
                     HasItem(db, p, [Id |-> id, Created |-> t])
                     => [Id |-> id, Created |-> t] \in db[p].items
              /\ \A c \in Calls :
                     (calls[c].pc = "iter" /\ calls[c].playlistId = p)
                     => ~Iter(db, p, FormatRFC3339(
                             calls[c].videos[Len(calls[c].videos)].Created)).err
              /\ \A after \in AfterKeys :
                     LastLimitKey \notin Range(PrevKeys(db[p], after))

\* a fallback that asked for more has run over a bucket that carries both
\* item records and the last-limit entry
C26_Witness ==
    \E c \in Calls :
        /\ cacheOn
        /\ calls[c].pc = "update"
        /\ calls[c].live < calls[c].limit
        /\ db[calls[c].playlistId].lastLimit # {}
        /\ db[calls[c].playlistId].items # {}

\* C27: after a call that ran alone with the cache in use and returned a
\* list for a positive limit on a playlist that is not empty, the list is
\* the first min(limit, length) items of the playlist, the bucket holds
\* every item of it, and last-limit is the limit of the call.
C27_PersistedAfterSuccess ==
    (/\ hist # <<>>
     /\ cacheOn
     /\ hist[1].call.outcome = "ok"
     /\ hist[1].call.limit > 0
     /\ remote[hist[1].call.playlistId] # <<>>)
    => LET call == hist[1].call
           p == call.playlistId
       IN  /\ call.videos = Expected(p, call.limit)
           /\ Range(call.videos) \subseteq db[p].items
           /\ db[p].lastLimit = {call.limit}

\* what the call that takes the step ends with, when the step ends it
Ends(c, outcomes) ==
    calls'[c].pc = "idle"
    => hist' # <<>> /\ hist'[1].call.outcome \in outcomes

\* C28: the operations of one call come in a fixed order.  The staleness
\* check is its first step, before any page is requested; the steps of the
\* live loop only read the store; the one Put follows the loop and touches
\* no last-limit; the fallback only reads; UpdateMaxLimit is the last step,
\* writes no item record, and is the step of every call that returns a
\* list, and of no other.
C28_OperationOrder ==
    [][\A c \in Calls :
        calls'[c] # calls[c]
        => LET p == Acting(c)
               pc == calls[c].pc
               next == calls'[c].pc
           IN  /\ pc = "idle"
                  => /\ next = "live"
                     /\ calls'[c].pages = 0
                     /\ calls'[c].videos = <<>>
                     /\ db' = InvalidateCacheIfDirty(db, p, calls'[c].limit)
               /\ pc = "live"
                  => /\ next \in {"live", "put", "idle"}
                     /\ db' = db
                     /\ Ends(c, {"error"})
               /\ pc = "put"
                  => /\ next \in {"iter", "idle"}
                     /\ db' = Put(db, p, calls[c].videos)
                     /\ db'[p].lastLimit = db[p].lastLimit
                     /\ next = "iter" => calls'[c].pages = calls[c].pages
                     /\ Ends(c, {"panic"})
               /\ pc = "iter"
                  => /\ next \in {"update", "idle"}
                     /\ db' = db
                     /\ next = "update" => calls'[c].pages = calls[c].pages
                     /\ Ends(c, {"panic", "cache error"})
               /\ pc = "update"
                  => /\ next = "idle"
                     /\ db' = UpdateMaxLimit(db, p, calls[c].limit)
                     /\ db'[p].items = db[p].items
                     /\ Ends(c, {"ok"})]_vars

\* a call went through the staleness check, the live loop, the Put, a
\* fallback that supplied an item, and UpdateMaxLimit
C28_Witness ==
    /\ hist # <<>>
    /\ cacheOn
    /\ hist[1].call.outcome = "ok"
    /\ hist[1].start.lastLimit # {}
    /\ AtoiLastLimit(hist[1].start).val >= hist[1].call.limit
    /\ Len(hist[1].call.videos) >= 2
    /\ hist[1].call.videos[1] \in hist[1].start.items

\* the stored last-limit of a bucket, a missing or unreadable one read as 0
StoredLimit(b) == IF AtoiLastLimit(b).err THEN 0 ELSE AtoiLastLimit(b).val

\* C29: UpdateMaxLimit stores max(stored last-limit, limit), a missing value
\* counting as 0.  On every store the program builds and for every limit it
\* does nothing without a bucket, and with one it changes last-limit alone,
\* to that maximum, never to less than before; and the last step of a call
\* that returns a list applies it with the limit of the call.
C29_UpdateMaxLimit ==
    [][/\ \A p \in DOMAIN db, limit \in Limits :
            LET after == UpdateMaxLimit(db, p, limit)
            IN  IF ~cacheOn \/ ~db[p].exists THEN after = db
                ELSE /\ after[p].lastLimit
                            = {Max(StoredLimit(db[p]), limit)}
                     /\ StoredLimit(after[p]) >= StoredLimit(db[p])
                     /\ after[p].items = db[p].items
                     /\ after[p].exists
                     /\ \A q \in DOMAIN db \ {p} : after[q] = db[q]
       /\ \A c \in Calls :
            (calls[c].pc = "update" /\ calls'[c].pc = "idle")
            => db' = UpdateMaxLimit(db, calls[c].playlistId,
                                    calls[c].limit)]_vars

\* a call on a playlist that had no bucket has returned: UpdateMaxLimit
\* found no last-limit in the bucket Put created and stored the limit
C29_Witness ==
    /\ hist # <<>>
    /\ cacheOn
    /\ hist[1].call.outcome = "ok"
    /\ ~hist[1].start.exists
    /\ hist[1].call.limit >= 1
    /\ db[hist[1].call.playlistId].lastLimit = {hist[1].call.limit}
    /\ db[hist[1].call.playlistId].items # {}

\* C30: in the count-based revision, a call with a positive limit that ran
\* alone with the cache in use, found the bucket of its playlist kept
\* (count >= limit) and returned a list, returned the first
\* min(limit, length) items of the playlist.  Stated for playlists whose
\* timestamps are pairwise distinct.
C30_CountKeptCacheExact ==
    (/\ hist # <<>>
     /\ cacheOn
     /\ hist[1].call.outcome = "ok"
     /\ hist[1].call.limit > 0
     /\ hist[1].start.exists
     /\ hist[1].start.count >= hist[1].call.limit
     /\ DistinctTimes(hist[1].call.playlistId))
    => hist[1].call.videos
           = Expected(hist[1].call.playlistId, hist[1].call.limit)


====
